---- MODULE Spec2Model ----
(***************************************************************************)
(* A model of the DNS-over-HTTPS proxy of src/main.rs: the UDP receive     *)
(* loop of main, the response cache (invalidate_cache, cache_hit,          *)
(* cache_miss), the query name decoder (get_query_names) and the splice of *)
(* the requester's transaction ID onto the cached payload.                 *)
(*                                                                         *)
(* Bytes are integers 0..255, byte strings are sequences of bytes.  Rust   *)
(* slices are 0-based and half-open, SubSeq is 1-based and closed:         *)
(* v[a..b] is SubSeq(v, a + 1, b) and v[a..] is SubSeq(v, a + 1, Len(v)).  *)
(* Instants and durations are whole seconds of the clock `now`.            *)
(***************************************************************************)
EXTENDS Integers, Sequences, FiniteSets, TLC

\* ------------------------------------------------------------------------
\* Bounds of the model
\* ------------------------------------------------------------------------
MaxTime == 3        \* the clock runs from 0 to MaxTime seconds
MaxTtl == 1         \* --cache-ttl is drawn from 0..MaxTtl
MaxLabels == 3      \* the decoded names have up to MaxLabels labels

\* ------------------------------------------------------------------------
\* Program constants
\* ------------------------------------------------------------------------
HeaderLen == 12     \* &request[12..]: the fixed DNS header
IdLen == 2          \* request[0..2], request[2..], body.drain(2..)
Dot == 46           \* acc.push('.')
POST_CONTENT_TYPE_KEY == "Content-Type"
POST_CONTENT_TYPE_VALUE == "application/dns-message"

\* ------------------------------------------------------------------------
\* Inputs: datagrams, requesters, answers of the remote
\* ------------------------------------------------------------------------
TxIds == {<<171, 205>>, <<18, 52>>}                 \* 0xABCD, 0x1234
Header == <<1, 0, 0, 1, 0, 0, 0, 0, 0, 0>>          \* bytes 2..11
Questions == { <<1, 97, 0>>,      \* "a."
               <<1, 98, 0>>,      \* "b."
               <<2, 97>>,         \* label length overruns the buffer
               <<1, 97>>,         \* no terminating zero label
               <<>> }             \* a bare 12-byte header
ShortDatagrams == { <<>>, <<171, 205, 1>> }         \* shorter than a header
\* The datagrams that main serves: a header and a decodable question.
WellFormed == {id \o Header \o q : id \in TxIds, q \in {<<1, 97, 0>>, <<1, 98, 0>>}}
\* Every question under one transaction ID, the decodable ones under both.
Datagrams == WellFormed
               \cup {<<171, 205>> \o Header \o q : q \in Questions}
               \cup ShortDatagrams
Origins == {"10.0.0.1:5353", "10.0.0.2:5353"}
NoOrigin == "none"
Remote == "https://remote/dns-query"
Statuses == {200, 500}
Bodies == { <<7>>,                \* shorter than a transaction ID
            <<9, 9, 5>>, <<8, 8, 6>> }
NoResp == [kind |-> "none", status |-> 0, body |-> <<>>]
Answers == {[kind |-> "send_err", status |-> 0, body |-> <<>>]}
             \cup {[kind |-> "bytes_err", status |-> 200, body |-> <<>>]}
             \cup {[kind |-> "body", status |-> 200, body |-> b] : b \in Bodies}
             \cup {[kind |-> "body", status |-> s, body |-> <<9, 9, 5>>] : s \in Statuses}

VARIABLES
  args,       \* Cli: [cache, cache_ttl]
  cache,      \* Cache: key |-> [inst, res]
  now,        \* the clock, in seconds
  pc,         \* "recv" (blocked in recv_from), "await" (suspended in
              \* cache_miss), "exit_ok", "exit_err", "panic"
  request,    \* buffer[0..count] of the current cycle
  origin,     \* the sender address of the current cycle
  name,       \* the decoded query name
  ret,        \* the result of cache_hit in the current cycle
  resp,       \* the remote's answer to the current cycle's POST
  posts,      \* the POSTs issued in the current cycle
  replies,    \* the datagrams sent in the current cycle
  log,        \* the debug! line of the current cycle
  before,     \* history: the cache when the cycle's datagram arrived
  swept,      \* history: the cache after the cycle's invalidate_cache
  stored_by   \* history: key |-> the request whose POST created the entry

vars == <<args, cache, now, pc, request, origin, name, ret, resp, posts,
          replies, log, before, swept, stored_by>>

EmptyCache == <<>>

\* let ttl = if args.cache { args.cache_ttl } else { 0 }
ttl == IF args.cache THEN args.cache_ttl ELSE 0

\* value.0.elapsed().as_secs()
Elapsed(inst) == now - inst

\* The three places that derive the cache key of a request.
\* (the _whole, _question and _swapped variants are faults seeded to test
\* the properties: the key of the whole request, the key of the question
\* section alone, the ID appended instead of prepended)
MissKey_whole(req) == req
MissKey(req) == SubSeq(req, IdLen + 1, Len(req))    \* request[2..].to_vec()
HitKey_whole(req) == req
HitKey(req) == SubSeq(req, IdLen + 1, Len(req))     \* &request[2..].to_vec()
GetKey_question(req) == SubSeq(req, HeaderLen + 1, Len(req))
GetKey(req) == SubSeq(req, IdLen + 1, Len(req))     \* &request[2..]

\* fn invalidate_cache(cache, ttl, force)
\* (invalidate_cache_fresh is a seeded fault: the sweep that the function's
\* comment describes, whatever `force` is)
invalidate_cache_fresh(c, t, force) ==
  LET keep == {key \in DOMAIN c : Elapsed(c[key].inst) <= t}
  IN  [key \in keep |-> c[key]]
invalidate_cache(c, t, force) ==
  LET keep == {key \in DOMAIN c : Elapsed(c[key].inst) > t \/ ~force}
  IN  [key \in keep |-> c[key]]

\* fn get_query_names(req, acc): the result is the accumulated string, or a
\* panic on an out-of-bounds index.
\* (get_query_names_short is a seeded fault: the label is read as
\* req[1..len], one byte short)
RECURSIVE get_query_names_short(_, _)
get_query_names_short(req, acc) ==
  IF Len(req) = 0
  THEN [panic |-> TRUE, acc |-> acc]
  ELSE LET len == req[1] IN
       IF len = 0
       THEN [panic |-> FALSE, acc |-> acc]
       ELSE IF len + 1 > Len(req)
       THEN [panic |-> TRUE, acc |-> acc]
       ELSE get_query_names_short(SubSeq(req, len + 2, Len(req)),
                                  acc \o SubSeq(req, 2, len) \o <<Dot>>)
RECURSIVE get_query_names(_, _)
get_query_names(req, acc) ==
  IF Len(req) = 0
  THEN [panic |-> TRUE, acc |-> acc]                       \* req[0]
  ELSE LET len == req[1] IN
       IF len = 0
       THEN [panic |-> FALSE, acc |-> acc]
       ELSE IF len + 1 > Len(req)
       THEN [panic |-> TRUE, acc |-> acc]                  \* &req[1..=len]
       ELSE get_query_names(SubSeq(req, len + 2, Len(req)),
                            acc \o SubSeq(req, 2, len + 1) \o <<Dot>>)

\* request[0..2].iter().chain(res.into_iter()).copied().collect()
splice_reply_swapped(req, res) == res \o SubSeq(req, 1, IdLen)
splice_reply(req, res) == SubSeq(req, 1, IdLen) \o res

\* body.drain(2..).collect()
StripId(body) == SubSeq(body, IdLen + 1, Len(body))

\* cache.insert(key, (Instant::now(), res))
Insert(c, key, res) == (key :> [inst |-> now, res |-> res]) @@ c

Restrict(f, S) == [key \in (DOMAIN f) \cap S |-> f[key]]

Init ==
  /\ args \in [cache : BOOLEAN, cache_ttl : 0..MaxTtl]
  /\ cache = EmptyCache
  /\ now = 0
  /\ pc = "recv"
  /\ request = <<>>
  /\ origin = NoOrigin
  /\ name = <<>>
  /\ ret = "none"
  /\ resp = NoResp
  /\ posts = <<>>
  /\ replies = <<>>
  /\ log = "none"
  /\ before = EmptyCache
  /\ swept = EmptyCache
  /\ stored_by = <<>>

\* client.post(remote).body(request.clone()).header(..).send()
\* (Post_stripped is a seeded fault: the body without the transaction ID)
Post_stripped(req) ==
  [url |-> Remote, body |-> SubSeq(req, IdLen + 1, Len(req)),
   header |-> <<POST_CONTENT_TYPE_KEY, POST_CONTENT_TYPE_VALUE>>]
Post(req) ==
  [url |-> Remote, body |-> req,
   header |-> <<POST_CONTENT_TYPE_KEY, POST_CONTENT_TYPE_VALUE>>]

\* Lines 73-79 of main: look the entry up, splice, send.  c is the cache
\* after cache_hit, sendOk whether send_to succeeds.
\* (Reply_stale is a seeded fault: the reply goes to the sender that the
\* previous cycle had captured)
Reply_stale(c, req, from, sendOk) ==
  IF GetKey(req) \notin DOMAIN c
  THEN pc' = "panic" /\ replies' = <<>>
  ELSE IF sendOk
  THEN /\ replies' = <<[to |-> origin,
                        data |-> splice_reply(req, c[GetKey(req)].res)]>>
       /\ pc' = "recv"
  ELSE pc' = "exit_err" /\ replies' = <<>>
Reply(c, req, from, sendOk) ==
  IF GetKey(req) \notin DOMAIN c
  THEN pc' = "panic" /\ replies' = <<>>                    \* .unwrap()
  ELSE IF sendOk
  THEN /\ replies' = <<[to |-> from,
                        data |-> splice_reply(req, c[GetKey(req)].res)]>>
       /\ pc' = "recv"
  ELSE pc' = "exit_err" /\ replies' = <<>>                 \* send_to(..)?

\* listener.recv_from is called at the head of the while-let loop only, by
\* the one task that also runs the rest of the cycle.
\* (CanReceive_concurrent is a seeded fault: datagrams are also read while a
\* forward is suspended)
CanReceive_concurrent == pc \in {"recv", "await"}
CanReceive == pc = "recv"

\* One datagram arrives: main from recv_from up to the first suspension of
\* cache_miss (a miss), or to the end of the cycle (a hit, or a panic).
Recv(dgram, from, sendOk) ==
  /\ CanReceive
  /\ request' = dgram
  /\ origin' = from
  /\ before' = cache
  /\ resp' = NoResp
  /\ UNCHANGED <<args, now>>
  /\ IF Len(dgram) < HeaderLen                             \* &request[12..]
        \/ get_query_names(SubSeq(dgram, HeaderLen + 1, Len(dgram)), <<>>).panic
     THEN /\ pc' = "panic"
          /\ name' = <<>> /\ ret' = "none" /\ log' = "none"
          /\ posts' = <<>> /\ replies' = <<>> /\ swept' = EmptyCache
          /\ UNCHANGED <<cache, stored_by>>
     ELSE LET c == invalidate_cache(cache, ttl, FALSE) IN
          /\ name' = get_query_names(SubSeq(dgram, HeaderLen + 1, Len(dgram)), <<>>).acc
          /\ swept' = c
          /\ cache' = c
          /\ stored_by' = Restrict(stored_by, DOMAIN c)
          /\ IF HitKey(dgram) \in DOMAIN c
             THEN /\ log' = "HIT"
                  /\ ret' = "Ok"
                  /\ posts' = <<>>
                  /\ Reply(c, dgram, from, sendOk)
             ELSE /\ log' = "MISS"
                  /\ ret' = "pending"
                  /\ posts' = <<Post(dgram)>>
                  /\ replies' = <<>>
                  /\ pc' = "await"

\* The remote answers the POST (or the request fails): the rest of
\* cache_miss, then the rest of the cycle.
Respond(ans, sendOk) ==
  /\ pc = "await"
  /\ resp' = ans
  /\ UNCHANGED <<args, now, request, origin, name, posts, log, before, swept>>
  /\ IF ans.kind \in {"send_err", "bytes_err"}             \* .await?
     THEN /\ ret' = "Err"
          /\ pc' = "exit_err"                              \* cache_hit(..).await?
          /\ replies' = <<>>
          /\ UNCHANGED <<cache, stored_by>>
     ELSE IF Len(ans.body) < IdLen                         \* body.drain(2..)
     THEN /\ ret' = "panic"
          /\ pc' = "panic"
          /\ replies' = <<>>
          /\ UNCHANGED <<cache, stored_by>>
     ELSE LET c == Insert(cache, MissKey(request), StripId(ans.body)) IN
          /\ cache' = c
          /\ stored_by' = (MissKey(request) :> request) @@ stored_by
          /\ ret' = "Ok"
          /\ Reply(c, request, origin, sendOk)

\* recv_from fails: the while-let loop ends and main returns Ok(()).
RecvFail ==
  /\ pc = "recv"
  /\ pc' = "exit_ok"
  /\ UNCHANGED <<args, cache, now, request, origin, name, ret, resp, posts,
                 replies, log, before, swept, stored_by>>

\* A second passes while the process is running.
Advance ==
  /\ now < MaxTime
  /\ now' = now + 1

Tick ==
  /\ pc \in {"recv", "await"}
  /\ Advance
  /\ UNCHANGED <<args, cache, pc, request, origin, name, ret, resp, posts,
                 replies, log, before, swept, stored_by>>

Next ==
  \/ \E dgram \in Datagrams, from \in Origins, sendOk \in BOOLEAN :
        Recv(dgram, from, sendOk)
  \/ \E ans \in Answers, sendOk \in BOOLEAN : Respond(ans, sendOk)
  \/ RecvFail
  \/ Tick

Spec == Init /\ [][Next]_vars

\* The same program under the scheduling it can rely on: time passes.  The
\* arrival of datagrams and of the remote's answer is up to the environment;
\* the client is built without a timeout (Client::builder().build()), so no
\* step of the program ends a suspended forward.
LiveSpec == Init /\ [][Next]_vars /\ WF_vars(Tick)

\* ------------------------------------------------------------------------
\* A second specification: invalidate_cache driven with force = true, with
\* caching enabled.  main never calls it so; the sweeps are applied to the
\* caches that cache.insert and the clock can build.
\* ------------------------------------------------------------------------
InitSweep ==
  /\ Init
  /\ args.cache

\* cache.insert(request[2..].to_vec(), (Instant::now(), body.drain(2..)))
TestInsert(req, body) ==
  /\ cache' = Insert(cache, MissKey(req), StripId(body))
  /\ stored_by' = (MissKey(req) :> req) @@ stored_by
  /\ pc' = "test"
  /\ UNCHANGED <<args, now, request, origin, name, ret, resp, posts, replies,
                 log, before, swept>>

TestTick ==
  /\ Advance
  /\ pc' = "test"
  /\ UNCHANGED <<args, cache, request, origin, name, ret, resp, posts,
                 replies, log, before, swept, stored_by>>

\* invalidate_cache(&mut cache, ttl, true)
TestSweep ==
  /\ before' = cache
  /\ cache' = invalidate_cache(cache, ttl, TRUE)
  /\ swept' = cache'
  /\ stored_by' = Restrict(stored_by, DOMAIN cache')
  /\ pc' = "swept"
  /\ UNCHANGED <<args, now, request, origin, name, ret, resp, posts, replies,
                 log>>

NextSweep ==
  \/ \E req \in WellFormed, body \in {b \in Bodies : Len(b) >= IdLen} :
        TestInsert(req, body)
  \/ TestTick
  \/ TestSweep

SweepSpec == InitSweep /\ [][NextSweep]_vars

\* ------------------------------------------------------------------------
\* A third specification: get_query_names applied, as main applies it, to
\* the question section of one datagram; the questions are the encodings of
\* up to MaxLabels labels, whole or cut short.
\* ------------------------------------------------------------------------
Labels == { <<102, 111, 111>>, <<99, 111, 109>>, <<97>> }   \* foo, com, a
LabelSeqs == UNION {[1..n -> Labels] : n \in 0..MaxLabels}
\* The wire form of a name: each label after its length, then a zero.
RECURSIVE Encode(_)
Encode(ls) ==
  IF ls = <<>> THEN <<0>>
  ELSE <<Len(Head(ls))>> \o Head(ls) \o Encode(Tail(ls))
Trailers == { <<>>, <<0, 1, 0, 1>> }                        \* QTYPE, QCLASS
CutShort(q) == {SubSeq(q, 1, Len(q) - n) : n \in 1..2} \ {q}
DecodeQuestions ==
  {Encode(ls) \o tr : ls \in LabelSeqs, tr \in Trailers}
    \cup UNION {CutShort(Encode(ls)) : ls \in LabelSeqs}

InitDecode ==
  /\ args = [cache |-> FALSE, cache_ttl |-> 0]
  /\ cache = EmptyCache
  /\ now = 0
  /\ pc = "decode"
  /\ request \in {<<171, 205>> \o Header \o q : q \in DecodeQuestions}
  /\ origin = NoOrigin
  /\ name = <<>>
  /\ ret = "none"
  /\ resp = NoResp
  /\ posts = <<>>
  /\ replies = <<>>
  /\ log = "none"
  /\ before = EmptyCache
  /\ swept = EmptyCache
  /\ stored_by = <<>>

\* let mut name = String::new(); get_query_names(&request[12..], &mut name)
Decode ==
  /\ pc = "decode"
  /\ LET r == get_query_names(SubSeq(request, HeaderLen + 1, Len(request)), <<>>)
     IN  IF r.panic
         THEN pc' = "panic" /\ name' = <<>>
         ELSE pc' = "decoded" /\ name' = r.acc
  /\ UNCHANGED <<args, cache, now, request, origin, ret, resp, posts, replies,
                 log, before, swept, stored_by>>

DecodeSpec == InitDecode /\ [][Decode]_vars

\* ------------------------------------------------------------------------
\* Properties
\* ------------------------------------------------------------------------
TypeOK ==
  /\ pc \in {"recv", "await", "exit_ok", "exit_err", "panic", "test", "swept",
             "decode", "decoded"}
  /\ now \in 0..MaxTime
  /\ ret \in {"none", "pending", "Ok", "Err", "panic"}
  /\ DOMAIN stored_by = DOMAIN cache

\* The cache key as the specification defines it: the bytes from offset 2.
KeyOf(req) == SubSeq(req, 3, Len(req))
\* Two queries that differ at most in their 2-byte transaction ID.
SameButId(q1, q2) ==
  /\ Len(q1) >= 2
  /\ Len(q2) = Len(q1)
  /\ KeyOf(q1) = KeyOf(q2)
\* Some datagram was received and its cycle reached the cache lookup.
LookedUp == ret # "none"
\* A step of main that receives a datagram and reaches the cache lookup.
LookupStep ==
  /\ \E dgram \in Datagrams, from \in Origins, sendOk \in BOOLEAN :
        Recv(dgram, from, sendOk)
  /\ ret' # "none"

\* C1: whenever cache_hit has returned Ok in a cycle, the cache holds an
\* entry under request[2..] and the lookup's unwrap() has not panicked.
C1_EntryAfterOk ==
  ret = "Ok" => (KeyOf(request) \in DOMAIN cache /\ pc # "panic")
\* C1 witness: a miss on a non-empty cache was forwarded, stored and answered.
C1_Witness ==
  /\ ret = "Ok" /\ log = "MISS" /\ before # EmptyCache
  /\ replies # <<>>

\* C2 (as claimed): at the lookup of every cycle, right after
\* invalidate_cache, every cache entry is at most ttl seconds old.
C2_FreshAtLookup ==
  [][LookupStep => \A key \in DOMAIN swept' : now' - swept'[key].inst <= ttl]_vars

\* C3 (as claimed): a forced sweep keeps an entry of age ttl-1 and removes an
\* entry of age ttl+1.
C3_ForcedSweep ==
  pc = "swept" =>
    \A key \in DOMAIN before :
      /\ (now - before[key].inst = ttl - 1) => key \in DOMAIN cache
      /\ (now - before[key].inst = ttl + 1) => key \notin DOMAIN cache

\* C4 (as claimed): with caching disabled every request that reaches the
\* lookup is forwarded, and the lookup finds the cache empty.
C4_DisabledAlwaysForwards ==
  (~args.cache /\ LookedUp) => (Len(posts) = 1 /\ swept = EmptyCache)

\* C5: with caching enabled, a request whose key is cached and within TTL
\* causes no POST, leaves the cache as it was, and a reply that is sent is
\* the request's own 2-byte ID followed by the payload stored earlier.
C5_HitServedFromCache ==
  [][(/\ LookupStep
      /\ args.cache
      /\ KeyOf(request') \in DOMAIN cache
      /\ now - cache[KeyOf(request')].inst <= ttl)
     => /\ posts' = <<>>
        /\ cache' = cache
        /\ ret' = "Ok"
        /\ pc' # "panic"
        /\ \A i \in 1..Len(replies') :
              replies'[i].data = <<request'[1], request'[2]>>
                                   \o cache[KeyOf(request')].res]_vars
\* C5 witness: a hit within TTL, answered, on an entry that a request with
\* another transaction ID had stored.
C5_Witness ==
  /\ args.cache /\ log = "HIT" /\ replies # <<>>
  /\ KeyOf(request) \in DOMAIN before
  /\ now - before[KeyOf(request)].inst <= ttl
  /\ stored_by[KeyOf(request)] # request

\* C6 (as claimed): after cache_miss has returned an error the loop is still
\* running.
C6_ForwardFailureContinues ==
  ret = "Err" => pc \notin {"exit_err", "panic"}

\* C7 (as claimed): a datagram shorter than 12 bytes neither crashes the
\* loop nor forwards, caches or replies.
C7_ShortDatagramSkipped ==
  (origin # NoOrigin /\ Len(request) < 12) =>
    /\ pc \notin {"panic", "exit_err"}
    /\ posts = <<>> /\ replies = <<>> /\ cache = before

\* C8 (as claimed): a failed forward, a non-success status or a body shorter
\* than 2 bytes makes cache_miss return an error and leaves the cache as it
\* was.
ForwardFailed ==
  \/ resp.kind \in {"send_err", "bytes_err"}
  \/ resp.kind = "body" /\ (resp.status \notin 200..299 \/ Len(resp.body) < 2)
C8_FailedForwardNotCached ==
  ForwardFailed => (ret = "Err" /\ cache = before)

\* C9: for every entry stored by a query q1 and every query q2 that differs
\* from q1 only in its transaction ID, the key of the insertion for q1, of
\* the presence test for q2 and of the lookup for q2 are the entry's key, so
\* q2 finds the entry.
C9_KeyIgnoresId ==
  \A key \in DOMAIN cache : \A q2 \in Datagrams :
    SameButId(stored_by[key], q2) =>
      /\ MissKey(stored_by[key]) = key
      /\ HitKey(q2) = key
      /\ GetKey(q2) = key
\* C9 witness: a query was answered from the entry that a query with another
\* transaction ID had stored.
C9_Witness ==
  /\ log = "HIT" /\ ret = "Ok" /\ replies # <<>>
  /\ GetKey(request) \in DOMAIN stored_by
  /\ stored_by[GetKey(request)] # request
  /\ SameButId(stored_by[GetKey(request)], request)

\* C10: every reply starts with the first two bytes of its request and
\* continues with exactly the payload cached under the request's key.
C10_ReplySplice ==
  \A i \in 1..Len(replies) :
    LET data == replies[i].data IN
    /\ Len(data) >= 2
    /\ SubSeq(data, 1, 2) = SubSeq(request, 1, 2)
    /\ KeyOf(request) \in DOMAIN cache
    /\ SubSeq(data, 3, Len(data)) = cache[KeyOf(request)].res
\* C10 witness: a reply with a non-empty payload was sent on a cache hit.
C10_Witness ==
  /\ replies # <<>> /\ log = "HIT"
  /\ Len(replies[1].data) > 2

\* The question section of the current datagram.
Question == SubSeq(request, 13, Len(request))
\* A name as the specification writes it: each label followed by a dot.
RECURSIVE Dotted(_)
Dotted(ls) == IF ls = <<>> THEN <<>> ELSE Head(ls) \o <<46>> \o Dotted(Tail(ls))

\* C11: the decoded name is a function of the question bytes: the labels of
\* the length-prefixed sequence, each followed by a dot, up to the zero-length
\* label (whatever follows it); [3,f,o,o,3,c,o,m,0] decodes to "foo.com.".
C11_DecodeName ==
  pc = "decoded" =>
    /\ \A ls \in LabelSeqs, tr \in Trailers :
          Question = Encode(ls) \o tr => name = Dotted(ls)
    /\ Question = <<3, 102, 111, 111, 3, 99, 111, 109, 0>>
          => name = <<102, 111, 111, 46, 99, 111, 109, 46>>
\* C11 witness: [3,f,o,o,3,c,o,m,0] has been decoded.
C11_Witness ==
  /\ pc = "decoded"
  /\ Question = <<3, 102, 111, 111, 3, 99, 111, 109, 0>>
  /\ name = <<102, 111, 111, 46, 99, 111, 109, 46>>

\* C12 (as claimed): when the question of a received datagram cannot be
\* decoded (a label length past the end, or no terminating zero label), the
\* cycle goes on with an empty name: no panic, and the cache lookup happens.
C12_DecodeFailureContinues ==
  (/\ origin # NoOrigin
   /\ Len(request) > 12
   /\ get_query_names(Question, <<>>).panic)
  => (pc # "panic" /\ LookedUp /\ name = <<>>)

\* C13 (as claimed): a cycle whose forward failed (a failed request, a
\* non-success status, or a body shorter than 2 bytes) has sent nothing to
\* the requester and has issued its POST once only.
C13_FailedForwardNoReply ==
  ForwardFailed => (replies = <<>> /\ Len(posts) = 1)

\* C14: a cycle that reaches the lookup issues no POST when the request's
\* key is in the cache after the sweep, and otherwise exactly one POST, to
\* the configured remote, whose body is the received datagram byte for byte.
C14_OnePostPerMiss ==
  LookedUp =>
    IF KeyOf(request) \in DOMAIN swept
    THEN posts = <<>>
    ELSE /\ Len(posts) = 1
         /\ posts[1].url = Remote
         /\ posts[1].body = request
         /\ posts[1].header = <<"Content-Type", "application/dns-message">>
\* C14 witness: a miss on a non-empty cache was answered after its one POST.
C14_Witness ==
  /\ LookedUp /\ swept # EmptyCache
  /\ KeyOf(request) \notin DOMAIN swept
  /\ Len(posts) = 1 /\ replies # <<>>

\* C15 (as claimed): every cache entry that the current cycle created was
\* created by a successful forward (an answer with a success status and a
\* body of at least 2 bytes): its key is the forwarded request from offset
\* 2 and its payload is the answer's body without its first 2 bytes.
C15_EntriesFromSuccess ==
  \A key \in DOMAIN cache :
    (key \notin DOMAIN before \/ cache[key] # before[key]) =>
      /\ resp.kind = "body"
      /\ resp.status \in 200..299
      /\ Len(resp.body) >= 2
      /\ key = KeyOf(request)
      /\ Len(posts) = 1 /\ posts[1].body = request
      /\ cache[key].res = SubSeq(resp.body, 3, Len(resp.body))

\* C16: while a cycle is suspended in its forward no datagram is received
\* (the request, its sender, its POST and the cache it started from stay
\* what they are), and the cache changes only in a step of that cycle, under
\* the key of its request.
C16_OneAtATime ==
  [][/\ pc = "await" =>
          /\ request' = request /\ origin' = origin
          /\ posts' = posts /\ before' = before /\ swept' = swept
     /\ cache' # cache =>
          /\ pc = "await" /\ pc' # "await"
          /\ \A key \in DOMAIN cache' :
                (key \notin DOMAIN cache \/ cache'[key] # cache[key])
                   => key = KeyOf(request)
          /\ DOMAIN cache \subseteq DOMAIN cache']_vars
\* C16 witness: a cycle is suspended in its forward, on a non-empty cache,
\* after an earlier cycle has been served.
C16_Witness ==
  /\ pc = "await" /\ Len(posts) = 1
  /\ cache # EmptyCache

\* C17 (as claimed): every cycle that is suspended in its forward eventually
\* finishes, whether or not the remote answers.
C17_CycleEventuallyEnds ==
  (pc = "await") ~> (pc # "await")

\* C18: at most one reply is sent for a received datagram, and it is sent to
\* the sender address captured when that datagram was received.
C18_ReplyToSender ==
  /\ Len(replies) <= 1
  /\ \A i \in 1..Len(replies) : replies[i].to = origin /\ origin \in Origins
\* C18 witness: a reply sent after a suspended forward, in a later cycle
\* than the first.
C18_Witness ==
  /\ Len(replies) = 1 /\ replies[1].to = origin
  /\ log = "MISS" /\ before # EmptyCache

====
